---- MODULE Spec2Model ----
(***************************************************************************)
(* State-machine model of the DPM-Solver++ scheduler of refiners:          *)
(*   src/refiners/foundationals/latent_diffusion/schedulers/scheduler.py   *)
(*   src/refiners/foundationals/latent_diffusion/schedulers/dpm_solver.py  *)
(*                                                                         *)
(* Tensors of floats are modelled symbolically: a schedule array by the    *)
(* arguments it was derived from, its dtype, its device and the coarsest   *)
(* precision its values went through; a data estimate by the call that     *)
(* pushed it, its step index and the timestep it was estimated at.         *)
(* Integer tensors (the                                                    *)
(* timesteps) and all indexing are modelled exactly, with Python's         *)
(* negative-index rule.                                                    *)
(***************************************************************************)
EXTENDS Integers, Sequences, FiniteSets, TLC

\* Bounds of the model.
MaxT == 4
MaxN == 3
MaxCalls == 3
GenMaxT == 13
GenMaxN == 12

\* Values of the repository: the default num_train_timesteps and the number
\* of inference steps the end-to-end tests use.
DefaultTrainTimesteps == 1000
TestInferenceSteps == 30

\* The fields of the scheduler, then four observation variables: pushed counts
\* the step calls that computed a data estimate, completed those that
\* returned, branches lists the update each call chose, and last describes the
\* latest call (its arguments, its outcome, the timesteps and data estimates
\* its formula read, and what it returned).
VARIABLES
    num_inference_steps,
    num_train_timesteps,
    initial_diffusion_rate,
    final_diffusion_rate,
    device,
    dtype,
    scale_factors,
    cumulative_scale_factors,
    noise_std,
    signal_to_noise_ratios,
    timesteps,
    estimated_data,
    initial_steps,
    pushed,
    completed,
    branches,
    last,
    heap,
    solvers,
    alone

vars == <<num_inference_steps, num_train_timesteps, initial_diffusion_rate,
          final_diffusion_rate, device, dtype, scale_factors,
          cumulative_scale_factors, noise_std, signal_to_noise_ratios,
          timesteps, estimated_data, initial_steps, pushed, completed,
          branches, last, heap, solvers, alone>>

-----------------------------------------------------------------------------
\* numpy.linspace(0, T-1, N+1).round().astype(int), in binary64.

RECURSIVE Log2Up(_, _, _)
Log2Up(num, den, p) ==
    IF den * 2^(p + 1) <= num THEN Log2Up(num, den, p + 1) ELSE p

RECURSIVE Log2Down(_, _, _)
Log2Down(num, den, q) ==
    IF num * 2^q < den THEN Log2Down(num, den, q + 1) ELSE q

\* floor(log2(num/den)) for num, den > 0: the binade of a positive rational.
FloorLog2(num, den) ==
    IF num >= den THEN Log2Up(num, den, 0) ELSE -Log2Down(num, den, 1)

RECURSIVE DoubleMod(_, _, _)
DoubleMod(r, n, times) ==
    IF times = 0 THEN r ELSE DoubleMod((2 * r) % n, n, times - 1)

\* The signed rounding error of step = fl(D/N), in units of 1/(N * 2^(52-p))
\* with p the binade of D/N: 0 when D/N is a binary64 number, negative when
\* the division rounded down, positive when it rounded up.
StepError(D, N) ==
    LET p == FloorLog2(D, N)
        r == DoubleMod(D % N, N, 52 - p)
    IN  IF r = 0 THEN 0 ELSE IF 2 * r < N THEN -r ELSE N - r

\* linspace computes sample i as fl(i * fl(D/N)).  When i*D/N is exactly
\* k + 1/2, the computed sample is the half itself (0), the binary64 number
\* below it (-1) or above it (1): i * StepError against half the spacing of
\* the binary64 numbers around k + 1/2.
HalfSide(D, N, i) ==
    LET p    == FloorLog2(D, N)
        rho  == StepError(D, N)
        twoh == (2 * i * D) \div N
        ph   == FloorLog2(twoh, 2)
        mag  == IF rho < 0 THEN -rho ELSE rho
        c    == IF rho < 0 /\ twoh = 2^(ph + 1) THEN 1 ELSE 0
    IN  IF rho = 0 \/ i * mag * 2^(1 + c) <= N * 2^(ph - p) THEN 0
        ELSE IF rho < 0 THEN -1 ELSE 1

\* Sample i of linspace(0, D, N+1), rounded half to even (numpy's round) and
\* cast to int.  The last sample is set to the stop value D itself.
RoundedSample(D, N, i) ==
    IF i = N \/ D = 0 THEN (IF i = 0 THEN 0 ELSE D)
    ELSE LET fl  == (i * D) \div N
             rem == (i * D) % N
         IN  IF 2 * rem < N THEN fl
             ELSE IF 2 * rem > N THEN fl + 1
             ELSE LET side == HalfSide(D, N, i)
                  IN  IF side < 0 THEN fl
                      ELSE IF side > 0 THEN fl + 1
                      ELSE IF fl % 2 = 0 THEN fl ELSE fl + 1

\* The end value of the linspace: num_train_timesteps - 1.
linspace_stop_off_by_one(T) == T

LinspaceStop(T) == T - 1

\* [1:] then .flip(0): samples N, N-1, ..., 1.
no_flip(samples) ==
    [k \in 1..(Len(samples) - 1) |-> samples[k + 1]]

DropFirstAndFlip(samples) ==
    [k \in 1..(Len(samples) - 1) |-> samples[Len(samples) + 1 - k]]

\* DPMSolver._generate_timesteps: the values of the timesteps tensor.
_generate_timesteps(T, N) ==
    DropFirstAndFlip([j \in 1..(N + 1) |-> RoundedSample(LinspaceStop(T), N, j - 1)])

-----------------------------------------------------------------------------
\* Tensors.

Devices == {"cpu", "cuda"}
DTypes == {"float16", "float32"}

\* The coarser of two floating precisions.
Coarser(a, b) == IF a = "float16" \/ b = "float16" THEN "float16" ELSE "float32"

\* Python indexing of a sequence of length n: -n..n-1 are accepted, a
\* negative index counts from the end, anything else raises IndexError.
IndexInRange(i, n) == -n <= i /\ i < n

At(seq, i) == IF i >= 0 THEN seq[i + 1] ELSE seq[Len(seq) + i + 1]

\* A schedule array of Scheduler.__init__: what it was computed from, its
\* dtype and device, and the coarsest precision its values went through.
ScheduleArray(name, T, lo, hi, dt, dev) ==
    [array |-> name, steps |-> T, start |-> lo, end |-> hi,
     dtype |-> dt, precision |-> dt, device |-> dev]

\* Tensor.to(device, dtype=dtype) on a schedule array: None keeps what is
\* there; a new dtype rounds the stored values to it.
TensorTo(arr, dev, dt) ==
    [arr EXCEPT !.device = IF dev = "None" THEN @ ELSE dev,
                !.dtype = IF dt = "None" THEN @ ELSE dt,
                !.precision = IF dt = "None" THEN @ ELSE Coarser(@, dt)]

\* tensor([]): the two entries the history deque is created with.
EmptyTensor == [call |-> 0, timestep |-> -1, step |-> 0]

\* deque.append on a deque of maxlen 2 holding two entries.
append_keep_oldest(dq, e) == <<dq[1], e>>

deque_append(dq, e) == <<dq[2], e>>

-----------------------------------------------------------------------------
\* Construction.

\* The diffusion rates, in units of 1e-5: the defaults 8.5e-4 and 1.2e-2,
\* and the same two in the wrong order.
RatePairs == {<<85, 1200>>, <<1200, 85>>}

NoCall ==
    [op |-> "init", step |-> 0, outcome |-> "ok", branch |-> "none",
     prev |-> -1, cur |-> -1, next |-> -1, dcur |-> 0, dnext |-> 0,
     ret |-> <<>>, self |-> FALSE, dev |-> "None", dt |-> "None",
     x_coeff |-> "none", d_coeff |-> "none"]

\* Solvers that live side by side.  heap holds the deques that exist, a
\* solver holds the position of its own one; alone[i] is solver i as it
\* would be if nothing else ran.
Instances == {1, 2}

NoSolver ==
    [constructed |-> FALSE, timesteps |-> <<>>, estimated_data |-> 0,
     initial_steps |-> 0, calls |-> 0, other_calls |-> 0, outputs |-> <<>>]

NoRun ==
    [estimated_data |-> <<EmptyTensor, EmptyTensor>>, initial_steps |-> 0,
     outputs |-> <<>>]

NoInstances ==
    /\ heap = <<>>
    /\ solvers = [i \in Instances |-> NoSolver]
    /\ alone = [i \in Instances |-> NoRun]

Unchanged_instances == UNCHANGED <<heap, solvers, alone>>

\* Scheduler.__init__ followed by the rest of DPMSolver.__init__.  Neither
\* checks its arguments: every array is built from whatever was passed.
Construct(N, T, lo, hi) ==
    /\ device = "cpu"
    /\ dtype = "float32"
    /\ num_inference_steps = N
    /\ num_train_timesteps = T
    /\ initial_diffusion_rate = lo
    /\ final_diffusion_rate = hi
    /\ scale_factors = ScheduleArray("scale_factors", T, lo, hi, "float32", "cpu")
    /\ cumulative_scale_factors =
           ScheduleArray("cumulative_scale_factors", T, lo, hi, "float32", "cpu")
    /\ noise_std = ScheduleArray("noise_std", T, lo, hi, "float32", "cpu")
    /\ signal_to_noise_ratios =
           ScheduleArray("signal_to_noise_ratios", T, lo, hi, "float32", "cpu")
    /\ timesteps = [device |-> "cpu", values |-> _generate_timesteps(T, N)]
    /\ estimated_data = <<EmptyTensor, EmptyTensor>>
    /\ initial_steps = 0
    /\ pushed = 0
    /\ completed = 0
    /\ branches = <<>>
    /\ last = NoCall
    /\ NoInstances

Init ==
    \E N \in 0..MaxN, T \in 1..MaxT, r \in RatePairs : Construct(N, T, r[1], r[2])

-----------------------------------------------------------------------------
\* DPMSolver.__call__ and the two update formulas.  An update is described
\* by the timesteps whose coefficients it reads and the data estimates it
\* combines; IndexError is the only exception indexing can raise.

\* The branch test of __call__.
first_order_while_not_saturated(c) == c < 2

first_order_never(c) == FALSE

first_order_selected(c) == c = 0

\* The counter update of __call__.
increment_unsaturated(c) == c + 1

next_initial_steps(c) == IF c < 2 THEN c + 1 ELSE c

\* The index of the 'previous' timestep in the first-order update.
previous_index_clamped(step, n) == IF step < n - 1 THEN step + 1 ELSE step

previous_index(step, n) == IF step < n - 1 THEN step + 1 ELSE 0

\* The coefficients of an update, x_coeff * x - d_coeff * (data estimate), by
\* their position against 1 and against 0.  noise_std grows and the log-SNR
\* falls with the timestep, and an array entry divided by itself, or
\* subtracted from itself, gives exactly 1, or exactly 0.

\* noise_std[previous_timestep] / noise_std[timestep]
noise_std_ratio(prev, cur) ==
    IF prev = cur THEN "one" ELSE IF prev < cur THEN "below one" ELSE "above one"

\* previous_scale_factor * (exp(-(previous_ratio - current_ratio)) - 1.0)
exp_factor_not_reduced(prev, cur) == "positive"

scaled_exp_factor_minus_one(prev, cur) ==
    IF prev = cur THEN "zero" ELSE IF prev < cur THEN "negative" ELSE "positive"

dpm_solver_first_order_update(ts, noise, step) ==
    LET prev == At(ts, previous_index(step, Len(ts)))
        cur  == At(ts, step)
    IN  [outcome |-> "ok", branch |-> "first", prev |-> prev, cur |-> cur,
         next |-> -1, dcur |-> noise.call, dnext |-> 0,
         x_coeff |-> noise_std_ratio(prev, cur),
         d_coeff |-> scaled_exp_factor_minus_one(prev, cur)]

\* The 'previous' timestep of the second-order update: past the last step it
\* is tensor([0]), the training timestep 0.
previous_timestep_wrapping(ts, step) ==
    IF step < Len(ts) - 1 THEN At(ts, step + 1) ELSE At(ts, 0)

second_order_previous_timestep(ts, step) ==
    IF step < Len(ts) - 1 THEN At(ts, step + 1) ELSE 0

\* The index of the 'next' timestep in the second-order update.
next_index_two_back(step) == step - 2

next_index(step) == step - 1

\* timesteps[step - 1] is the last of the three lookups and the only one that
\* can fail once timesteps[step] has succeeded in __call__.
multistep_dpm_solver_second_order_update(ts, hist, step) ==
    IF ~IndexInRange(next_index(step), Len(ts))
    THEN [outcome |-> "IndexError", branch |-> "second",
          prev |-> second_order_previous_timestep(ts, step), cur |-> At(ts, step),
          next |-> -1, dcur |-> 0, dnext |-> 0,
          x_coeff |-> "none", d_coeff |-> "none"]
    ELSE [outcome |-> "ok", branch |-> "second",
          prev |-> second_order_previous_timestep(ts, step), cur |-> At(ts, step),
          next |-> At(ts, next_index(step)),
          dcur |-> hist[2].call, dnext |-> hist[1].call,
          x_coeff |-> noise_std_ratio(second_order_previous_timestep(ts, step),
                                      At(ts, step)),
          d_coeff |-> scaled_exp_factor_minus_one(
                          second_order_previous_timestep(ts, step), At(ts, step))]

\* DPMSolver.__call__ as a function of the solver's state: the timesteps, the
\* history, the counter; sample names the pair (x, noise) passed in.
__call__(ts, dq, count, sample, step) ==
    IF ~IndexInRange(step, Len(ts))
    THEN [estimated_data |-> dq, initial_steps |-> count, pushed |-> FALSE,
          out |-> [outcome |-> "IndexError"]]
    ELSE LET est  == [call |-> sample, timestep |-> At(ts, step), step |-> step]
             hist == deque_append(dq, est)
             upd  == IF first_order_selected(count)
                     THEN dpm_solver_first_order_update(ts, est, step)
                     ELSE multistep_dpm_solver_second_order_update(ts, hist, step)
         IN  [estimated_data |-> hist,
              initial_steps |-> IF upd.outcome = "ok"
                                THEN next_initial_steps(count)
                                ELSE count,
              pushed |-> TRUE,
              out |-> upd]

schedule_cast_in_place ==
    /\ UNCHANGED <<num_inference_steps, num_train_timesteps, initial_diffusion_rate,
                   final_diffusion_rate, device, dtype, scale_factors,
                   cumulative_scale_factors, signal_to_noise_ratios, timesteps>>
    /\ noise_std' = TensorTo(noise_std, "None", "float16")

Unchanged_schedule ==
    UNCHANGED <<num_inference_steps, num_train_timesteps, initial_diffusion_rate,
                final_diffusion_rate, device, dtype, scale_factors,
                cumulative_scale_factors, noise_std, signal_to_noise_ratios,
                timesteps>>

Unchanged_solver ==
    UNCHANGED <<estimated_data, initial_steps, pushed, completed, branches>>

rejected_but_counted(step) ==
    /\ last' = [NoCall EXCEPT !.op = "step", !.step = step,
                              !.outcome = "IndexError"]
    /\ initial_steps' = next_initial_steps(initial_steps)
    /\ UNCHANGED <<estimated_data, pushed, completed, branches>>

\* self.timesteps[step] raises IndexError on the first line of __call__:
\* nothing was touched.
rejected_at_lookup(step) ==
    /\ last' = [NoCall EXCEPT !.op = "step", !.step = step,
                              !.outcome = "IndexError"]
    /\ Unchanged_solver

\* DPMSolver.__call__(x, noise, step).
Step(step) ==
    /\ pushed < MaxCalls
    /\ Unchanged_schedule
    /\ Unchanged_instances
    /\ IF ~IndexInRange(step, Len(timesteps.values))
       THEN rejected_at_lookup(step)
       ELSE LET res == __call__(timesteps.values, estimated_data, initial_steps,
                                pushed + 1, step)
                upd == res.out
            IN  /\ estimated_data' = res.estimated_data
                /\ pushed' = pushed + 1
                /\ branches' = Append(branches, upd.branch)
                /\ initial_steps' = res.initial_steps
                /\ completed' = IF upd.outcome = "ok" THEN completed + 1 ELSE completed
                /\ last' = [NoCall EXCEPT !.op = "step", !.step = step,
                                          !.outcome = upd.outcome,
                                          !.branch = upd.branch,
                                          !.prev = upd.prev, !.cur = upd.cur,
                                          !.next = upd.next,
                                          !.dcur = upd.dcur, !.dnext = upd.dnext,
                                          !.x_coeff = upd.x_coeff,
                                          !.d_coeff = upd.d_coeff]

-----------------------------------------------------------------------------
\* The operations of the base class.

AddNoise_pushing(step) ==
    /\ Unchanged_schedule
    /\ Unchanged_instances
    /\ UNCHANGED <<initial_steps, pushed, completed, branches>>
    /\ IF ~IndexInRange(step, Len(timesteps.values))
       THEN /\ last' = [NoCall EXCEPT !.op = "add_noise", !.step = step,
                                      !.outcome = "IndexError"]
            /\ UNCHANGED estimated_data
       ELSE /\ last' = [NoCall EXCEPT !.op = "add_noise", !.step = step,
                                      !.cur = At(timesteps.values, step)]
            /\ estimated_data' = deque_append(estimated_data, EmptyTensor)

\* Scheduler.add_noise(x, noise, step): reads timesteps[step] and the two
\* coefficients at that timestep.
AddNoise(step) ==
    /\ Unchanged_schedule
    /\ Unchanged_instances
    /\ Unchanged_solver
    /\ IF ~IndexInRange(step, Len(timesteps.values))
       THEN last' = [NoCall EXCEPT !.op = "add_noise", !.step = step,
                                  !.outcome = "IndexError"]
       ELSE last' = [NoCall EXCEPT !.op = "add_noise", !.step = step,
                                  !.cur = At(timesteps.values, step)]

\* Scheduler.steps: list(range(num_inference_steps)).
Steps_remaining ==
    /\ Unchanged_schedule
    /\ Unchanged_instances
    /\ Unchanged_solver
    /\ last' = [NoCall EXCEPT !.op = "steps",
                              !.ret = [k \in 1..(num_inference_steps - initial_steps) |->
                                          initial_steps + k - 1]]

Steps ==
    /\ Unchanged_schedule
    /\ Unchanged_instances
    /\ Unchanged_solver
    /\ last' = [NoCall EXCEPT !.op = "steps",
                              !.ret = [k \in 1..num_inference_steps |-> k - 1]]

To_resetting(dev, dt) ==
    /\ Unchanged_instances
    /\ UNCHANGED <<num_inference_steps, num_train_timesteps,
                   initial_diffusion_rate, final_diffusion_rate,
                   pushed, completed, branches>>
    /\ device' = (IF dev = "None" THEN device ELSE dev)
    /\ timesteps' = (IF dev = "None" THEN timesteps
                     ELSE [timesteps EXCEPT !.device = dev])
    /\ dtype' = (IF dt = "None" THEN dtype ELSE dt)
    /\ scale_factors' = TensorTo(scale_factors, dev, dt)
    /\ cumulative_scale_factors' = TensorTo(cumulative_scale_factors, dev, dt)
    /\ noise_std' = TensorTo(noise_std, dev, dt)
    /\ signal_to_noise_ratios' = TensorTo(signal_to_noise_ratios, dev, dt)
    /\ estimated_data' = <<EmptyTensor, EmptyTensor>>
    /\ initial_steps' = 0
    /\ last' = [NoCall EXCEPT !.op = "to", !.self = TRUE, !.dev = dev, !.dt = dt]

\* Scheduler.to(device, dtype): "None" is an argument left out.
To(dev, dt) ==
    /\ Unchanged_instances
    /\ UNCHANGED <<num_inference_steps, num_train_timesteps,
                   initial_diffusion_rate, final_diffusion_rate>>
    /\ Unchanged_solver
    /\ device' = (IF dev = "None" THEN device ELSE dev)
    /\ timesteps' = (IF dev = "None" THEN timesteps
                     ELSE [timesteps EXCEPT !.device = dev])
    /\ dtype' = (IF dt = "None" THEN dtype ELSE dt)
    /\ scale_factors' = TensorTo(scale_factors, dev, dt)
    /\ cumulative_scale_factors' = TensorTo(cumulative_scale_factors, dev, dt)
    /\ noise_std' = TensorTo(noise_std, dev, dt)
    /\ signal_to_noise_ratios' = TensorTo(signal_to_noise_ratios, dev, dt)
    /\ last' = [NoCall EXCEPT !.op = "to", !.self = TRUE, !.dev = dev, !.dt = dt]

\* The step indices a caller passes: every index Python accepts for the
\* timesteps tensor and one more on each side.
StepInputs == (-(num_inference_steps + 1))..num_inference_steps

Next ==
    \/ \E step \in StepInputs : Step(step)
    \/ \E step \in StepInputs : AddNoise(step)
    \/ Steps
    \/ \E dev \in Devices \cup {"None"}, dt \in DTypes \cup {"None"} : To(dev, dt)

Spec == Init /\ [][Next]_vars

\* Construction with the defaults of the repository and a wider range of
\* sizes, followed by the operations that leave the solver state alone.
InitGen ==
    \E N \in (1..GenMaxN) \cup {TestInferenceSteps},
       T \in (1..GenMaxT) \cup {DefaultTrainTimesteps} :
        Construct(N, T, 85, 1200)

NextGen ==
    \/ Steps
    \/ \E dev \in Devices \cup {"None"}, dt \in DTypes \cup {"None"} : To(dev, dt)

SpecGen == InitGen /\ [][NextGen]_vars

-----------------------------------------------------------------------------
\* Two DPMSolver objects of one process, constructed and called in any order.

PairMaxN == 2
PairCalls == 2

shared_deque(h) == 1

\* deque([tensor([])] * 2, maxlen=2) makes a new object at every
\* construction.
new_deque(h) == Len(h) + 1

\* The history solver i holds.
History(i) == heap[solvers[i].estimated_data]

\* The pair (x, noise) of call k on solver i: no two calls get the same.
Sample(i, k) == 2 * (k - 1) + i

\* DPMSolver(num_inference_steps=N), bound to name i.
NewSolver(i, N) ==
    /\ ~solvers[i].constructed
    /\ LET id == new_deque(heap)
       IN  /\ heap' = [k \in (DOMAIN heap) \cup {id} |->
                          IF k = id THEN <<EmptyTensor, EmptyTensor>> ELSE heap[k]]
           /\ solvers' = [solvers EXCEPT ![i] =
                  [NoSolver EXCEPT !.constructed = TRUE,
                                   !.timesteps =
                                       _generate_timesteps(DefaultTrainTimesteps, N),
                                   !.estimated_data = id]]
    /\ alone' = [alone EXCEPT ![i] = NoRun]
    /\ Unchanged_schedule
    /\ Unchanged_solver
    /\ UNCHANGED last

\* solvers[i](x, noise, step), and the same call on the solver run alone.
StepOn(i, step) ==
    /\ solvers[i].constructed
    /\ solvers[i].calls < PairCalls
    /\ LET s      == solvers[i]
           sample == Sample(i, s.calls + 1)
           res    == __call__(s.timesteps, History(i), s.initial_steps, sample, step)
           ref    == __call__(s.timesteps, alone[i].estimated_data,
                              alone[i].initial_steps, sample, step)
       IN  IF ~res.pushed
           THEN Unchanged_instances
           ELSE /\ heap' = [heap EXCEPT ![s.estimated_data] = res.estimated_data]
                /\ solvers' = [solvers EXCEPT ![i] =
                       [s EXCEPT !.initial_steps = res.initial_steps,
                                 !.calls = s.calls + 1,
                                 !.other_calls = solvers[3 - i].calls,
                                 !.outputs = Append(s.outputs, res.out)]]
                /\ alone' = [alone EXCEPT ![i] =
                       [estimated_data |-> ref.estimated_data,
                        initial_steps |-> ref.initial_steps,
                        outputs |-> Append(alone[i].outputs, ref.out)]]
    /\ Unchanged_schedule
    /\ Unchanged_solver
    /\ UNCHANGED last

InitTwo == Construct(PairMaxN, DefaultTrainTimesteps, 85, 1200)

NextTwo ==
    \/ \E i \in Instances, N \in 1..PairMaxN : NewSolver(i, N)
    \/ \E i \in Instances, step \in (-PairMaxN)..PairMaxN : StepOn(i, step)

SpecTwo == InitTwo /\ [][NextTwo]_vars

-----------------------------------------------------------------------------
\* Properties.

StrictlyDescending(seq) == \A k \in 1..(Len(seq) - 1) : seq[k] > seq[k + 1]

ValuesIn(seq, lo, hi) == \A k \in 1..Len(seq) : lo <= seq[k] /\ seq[k] <= hi

\* C1: of the step calls that get as far as choosing an update, the first
\* one takes the first-order branch and every later one the second-order
\* branch; the counter is 0 exactly while no call has chosen a branch, so no
\* operation brings the solver back to the first-order state.
C1_OnlyFirstCallIsFirstOrder ==
    /\ \A k \in 1..Len(branches) : (branches[k] = "first") <=> (k = 1)
    /\ (initial_steps = 0) <=> (branches = <<>>)

C1_ThreeCallsMade ==
    /\ branches = <<"first", "second", "second">>
    /\ initial_steps = 2

\* C2: the counter starts at 0, is min(completed step calls, 2) in every
\* state, goes up by exactly one on a completed step call made below 2, stays
\* at 2 afterwards and never decreases.
C2_CounterSaturatesAtTwo ==
    /\ initial_steps = 0 /\ completed = 0
    /\ [](initial_steps = IF completed < 2 THEN completed ELSE 2)
    /\ [][/\ initial_steps' >= initial_steps
          /\ completed' = completed + 1 =>
                initial_steps' = IF initial_steps < 2 THEN initial_steps + 1 ELSE 2
          /\ completed' = completed => initial_steps' = initial_steps]_vars

C2_ThirdCallCompleted == completed = 3 /\ initial_steps = 2

\* C3: once two step calls have computed a data estimate, the history holds
\* exactly the estimates of the last two such calls, older first; a
\* second-order update reads the estimate of its own call as D_cur and the
\* estimate of the call before it as D_next.
C3_HistoryHoldsLastTwoEstimates ==
    /\ Len(estimated_data) = 2
    /\ pushed >= 2 =>
          /\ estimated_data[1].call = pushed - 1
          /\ estimated_data[2].call = pushed
    /\ (last.op = "step" /\ last.branch = "second" /\ last.outcome = "ok") =>
          /\ last.dcur = pushed
          /\ last.dnext = pushed - 1
          /\ last.dnext >= 1

C3_ThirdCallSecondOrder ==
    /\ pushed = 3
    /\ last.op = "step" /\ last.branch = "second" /\ last.outcome = "ok"
    /\ estimated_data[1].call = 2 /\ estimated_data[2].call = 3

\* C4: a step or add_noise call whose step index is outside
\* [0, num_inference_steps) ends in an index error.
C4_OutOfRangeIndexRaises ==
    (last.op \in {"step", "add_noise"} /\ last.step \notin 0..(num_inference_steps - 1))
        => last.outcome = "IndexError"

\* C5 as stated: for every T > 0 and N >= 1 the timesteps are N distinct
\* integers of [0, T-1] in strictly descending order.
C5_AlwaysStrictlyDescending ==
    (num_train_timesteps > 0 /\ num_inference_steps >= 1) =>
        /\ Len(timesteps.values) = num_inference_steps
        /\ ValuesIn(timesteps.values, 0, num_train_timesteps - 1)
        /\ StrictlyDescending(timesteps.values)

\* C5 as amended: for every T > 0 and 1 <= N <= T-1 (and for N = T <= 2) the
\* timesteps are N distinct integers of [0, T-1] in strictly descending
\* order; for every T > 0 and N >= 1 they are N integers of [0, T-1] in
\* descending order, not always distinct.
C5_StrictlyDescendingUpToTMinusOne ==
    (num_train_timesteps > 0 /\ num_inference_steps >= 1) =>
        /\ Len(timesteps.values) = num_inference_steps
        /\ ValuesIn(timesteps.values, 0, num_train_timesteps - 1)
        /\ \A k \in 1..(num_inference_steps - 1) :
               timesteps.values[k] >= timesteps.values[k + 1]
        /\ (\/ num_inference_steps <= num_train_timesteps - 1
            \/ (num_inference_steps = num_train_timesteps /\ num_train_timesteps <= 2))
              => StrictlyDescending(timesteps.values)

\* A sequence where a rounding tie is decided by the binary64 error of the
\* linspace step: T = 1000, N = 30, whose sample 15 is 499.49999999999994.
C5_DefaultScheduleGenerated ==
    /\ num_train_timesteps = DefaultTrainTimesteps
    /\ num_inference_steps = TestInferenceSteps
    /\ timesteps.values[16] = 499
    /\ last.op = "to"

\* C6: the timesteps have length N and start at T-1; T = 1000, N = 30 gives
\* 30 strictly descending timesteps starting at 999.
C6_LengthAndFirstElement ==
    (num_train_timesteps > 0 /\ num_inference_steps >= 1) =>
        /\ Len(timesteps.values) = num_inference_steps
        /\ timesteps.values[1] = num_train_timesteps - 1
        /\ (num_train_timesteps = 1000 /\ num_inference_steps = 30) =>
              /\ Len(timesteps.values) = 30
              /\ timesteps.values[1] = 999
              /\ StrictlyDescending(timesteps.values)

C6_ThirtyOfThousand ==
    /\ num_train_timesteps = 1000 /\ num_inference_steps = 30
    /\ timesteps.values[1] = 999 /\ timesteps.values[30] = 33
    /\ last.op = "steps"

\* C7: the first-order update at step index s reads timesteps[s] as the
\* current timestep and, as the previous one, timesteps[s+1] when s+1 < N and
\* timesteps[0] otherwise; with N = 1 the previous timestep is the current.
C7_FirstOrderPreviousWraps ==
    (last.op = "step" /\ last.branch = "first") =>
        /\ last.cur = At(timesteps.values, last.step)
        /\ last.prev = IF last.step + 1 < num_inference_steps
                       THEN At(timesteps.values, last.step + 1)
                       ELSE timesteps.values[1]
        /\ num_inference_steps = 1 => last.prev = last.cur

C7_SingleStepWraps ==
    /\ num_inference_steps = 1
    /\ last.op = "step" /\ last.branch = "first" /\ last.step = 0
    /\ last.prev = timesteps.values[1] /\ last.cur = timesteps.values[1]

\* C8: an add_noise call, whatever its step index and wherever it falls in a
\* trajectory, changes neither the history, the counter, the timesteps nor
\* any of the four schedule arrays.
C8_AddNoiseIsPure ==
    [][last'.op = "add_noise" =>
         UNCHANGED <<estimated_data, initial_steps, timesteps, scale_factors,
                     cumulative_scale_factors, noise_std,
                     signal_to_noise_ratios>>]_vars

C8_AddNoiseBetweenSteps ==
    /\ last.op = "add_noise" /\ last.outcome = "ok"
    /\ initial_steps = 1
    /\ estimated_data[2].call = 1

\* C9: every scheduler that exists was constructed from valid arguments:
\* positive step counts and 0 < initial rate < final rate < 1 (the rates are
\* in units of 1e-5).
C9_OnlyValidArgumentsConstruct ==
    /\ num_inference_steps > 0
    /\ num_train_timesteps > 0
    /\ 0 < initial_diffusion_rate
    /\ initial_diffusion_rate < final_diffusion_rate
    /\ final_diffusion_rate < 100000

\* C10: a to call returns the scheduler itself and leaves the timestep
\* values, the history and the counter unchanged; a call that passes no
\* device leaves the timesteps tensor as it is.
C10_ToKeepsTimestepsAndSolverState ==
    [][last'.op = "to" =>
         /\ last'.self
         /\ timesteps'.values = timesteps.values
         /\ last'.dev = "None" => timesteps' = timesteps
         /\ UNCHANGED <<estimated_data, initial_steps>>]_vars

C10_PrecisionChangeBetweenSteps ==
    /\ last.op = "to" /\ last.dev = "None" /\ last.dt = "float16"
    /\ scale_factors.dtype = "float16"
    /\ initial_steps = 1
    /\ estimated_data[2].call = 1

\* C12: after construction the four schedule arrays and the timesteps change
\* only in a to call: no step, add_noise or steps call changes any of them.
C12_ScheduleChangesOnlyInTo ==
    [][(\/ scale_factors' # scale_factors
        \/ cumulative_scale_factors' # cumulative_scale_factors
        \/ noise_std' # noise_std
        \/ signal_to_noise_ratios' # signal_to_noise_ratios
        \/ timesteps' # timesteps) => last'.op = "to"]_vars

C12_UntouchedAfterTwoSteps ==
    /\ completed = 2
    /\ last.op = "add_noise" /\ last.outcome = "ok"
    /\ noise_std = ScheduleArray("noise_std", num_train_timesteps,
                                 initial_diffusion_rate, final_diffusion_rate,
                                 "float32", "cpu")
    /\ timesteps.device = "cpu"

\* C13: every read of steps returns 0, 1, ..., num_inference_steps-1, whatever
\* the counter and the history are.
C13_StepsIsRange ==
    last.op = "steps" =>
        /\ Len(last.ret) = num_inference_steps
        /\ \A k \in 1..Len(last.ret) : last.ret[k] = k - 1

C13_StepsReadAfterTwoCalls ==
    /\ last.op = "steps"
    /\ completed = 2 /\ initial_steps = 2
    /\ last.ret = <<0, 1, 2>>

\* C14 as stated: the second-order update at step index s reads, as the
\* previous timestep, timesteps[s+1] when s+1 < N and timesteps[0] otherwise.
C14_SecondOrderPreviousWraps ==
    (last.op = "step" /\ last.branch = "second" /\ last.outcome = "ok") =>
        last.prev = IF last.step + 1 < num_inference_steps
                    THEN At(timesteps.values, last.step + 1)
                    ELSE timesteps.values[1]

\* C14 as amended: the second-order update at step index s reads, as the
\* previous timestep, timesteps[s+1] when s+1 < N and the training timestep 0
\* otherwise: on the final step it uses the coefficients of timestep 0, not
\* those of timesteps[0].
C14_SecondOrderPreviousIsZero ==
    (last.op = "step" /\ last.branch = "second" /\ last.outcome = "ok") =>
        /\ last.cur = At(timesteps.values, last.step)
        /\ last.prev = IF last.step + 1 < num_inference_steps
                       THEN At(timesteps.values, last.step + 1)
                       ELSE 0

C14_FinalStepSecondOrder ==
    /\ last.op = "step" /\ last.branch = "second" /\ last.outcome = "ok"
    /\ num_inference_steps >= 2
    /\ last.step = num_inference_steps - 1
    /\ last.prev = 0
    /\ timesteps.values[1] # 0

\* C15 as stated: in every second-order call the timestep read as next,
\* timesteps[s-1], is the timestep the preceding step call processed, the one
\* D_next was estimated at.
C15_NextIsPrecedingTimestep ==
    (last.op = "step" /\ last.branch = "second" /\ last.outcome = "ok") =>
        last.next = estimated_data[1].timestep

\* C15 as amended: in every second-order call at step index s that follows a
\* step call made at step index s-1, the timestep read as next, timesteps[s-1],
\* is the timestep the preceding call processed, the one D_next was estimated
\* at; the update reads timesteps[s-1] whatever index the preceding call had.
C15_NextIsPrecedingTimestepInOrder ==
    (last.op = "step" /\ last.branch = "second" /\ last.outcome = "ok") =>
        /\ last.next = At(timesteps.values, last.step - 1)
        /\ last.dnext = estimated_data[1].call
        /\ estimated_data[1].step = last.step - 1 =>
              last.next = estimated_data[1].timestep

C15_SecondCallAfterStepZero ==
    /\ last.op = "step" /\ last.branch = "second" /\ last.outcome = "ok"
    /\ last.step = 1 /\ estimated_data[1].step = 0 /\ estimated_data[1].call = 1
    /\ last.next = estimated_data[1].timestep
    /\ last.next # last.cur

\* C16: a second-order update never reads one of the two empty tensors the
\* history is created with: both entries it reads were pushed by step calls.
C16_SecondOrderReadsNoPlaceholder ==
    (last.op = "step" /\ last.branch = "second" /\ last.outcome = "ok") =>
        /\ last.dcur # EmptyTensor.call
        /\ last.dnext # EmptyTensor.call
        /\ estimated_data[1] # EmptyTensor
        /\ estimated_data[2] # EmptyTensor

C16_FirstSecondOrderCall ==
    /\ last.op = "step" /\ last.branch = "second" /\ last.outcome = "ok"
    /\ pushed = 2
    /\ last.dcur = 2 /\ last.dnext = 1

\* A fresh solver stepped with the indices 0, 1, 2, ... in order: the latest
\* call is call s+1 at step index s and the one before it call s at s-1.
SteppedInOrder ==
    /\ estimated_data[2].call = last.step + 1
    /\ estimated_data[2].step = last.step
    /\ estimated_data[1].call = last.step
    /\ estimated_data[1].step = last.step - 1

\* C17: for 2 <= N <= T-1, every second-order call of a fresh solver stepped
\* with 0, 1, ..., N-1 in order reads three distinct timesteps
\* prev < cur < next, the final call included, and cur and next are the
\* timesteps D_cur and D_next were estimated at: neither log-SNR divisor is
\* the difference of a timestep with itself.
C17_InOrderTimestepsDistinct ==
    (/\ 2 <= num_inference_steps
     /\ num_inference_steps <= num_train_timesteps - 1
     /\ last.op = "step" /\ last.branch = "second" /\ last.outcome = "ok"
     /\ SteppedInOrder) =>
        /\ last.prev < last.cur
        /\ last.cur < last.next
        /\ last.cur = estimated_data[2].timestep
        /\ last.next = estimated_data[1].timestep

C17_FinalCallInOrder ==
    /\ num_inference_steps = 3 /\ num_train_timesteps = 4
    /\ last.op = "step" /\ last.branch = "second" /\ last.outcome = "ok"
    /\ SteppedInOrder
    /\ last.step = 2
    /\ last.prev = 0 /\ last.cur = 1 /\ last.next = 2

\* The cases C17 excludes do occur: a second-order call that reads the same
\* timestep as cur and as next.
C17_RepeatedIndexSameTimestep ==
    /\ last.op = "step" /\ last.branch = "second" /\ last.outcome = "ok"
    /\ last.cur = last.next

\* C18: a step call whose step index is >= num_inference_steps raises at the
\* timestep lookup, chooses no update and leaves the history and the counter
\* exactly as they were, so the next valid call takes the branch it would
\* have taken anyway.
C18_RejectedCallChangesNothing ==
    [][(last'.op = "step" /\ last'.step >= num_inference_steps) =>
         /\ last'.outcome = "IndexError"
         /\ last'.branch = "none"
         /\ UNCHANGED <<estimated_data, initial_steps, branches>>]_vars

C18_RejectedAfterFirstCall ==
    /\ last.op = "step" /\ last.step = num_inference_steps
    /\ last.outcome = "IndexError"
    /\ initial_steps = 1
    /\ estimated_data[2].call = 1 /\ estimated_data[1] = EmptyTensor

\* C19: with num_inference_steps = 1 the first-order step returns its input
\* x: the previous timestep is the current one, so the coefficient of x is
\* exactly 1 and the coefficient of the data estimate exactly 0.
C19_SingleStepReturnsInput ==
    (/\ num_inference_steps = 1
     /\ last.op = "step" /\ last.branch = "first" /\ last.outcome = "ok") =>
        /\ last.prev = last.cur
        /\ last.x_coeff = "one"
        /\ last.d_coeff = "zero"

C19_SingleStepTaken ==
    /\ num_inference_steps = 1 /\ num_train_timesteps = 4
    /\ last.op = "step" /\ last.branch = "first" /\ last.outcome = "ok"
    /\ last.step = 0 /\ last.cur = 3
    /\ last.x_coeff = "one" /\ last.d_coeff = "zero"

\* C11: solver state is per instance.  A step that is not a call on solver i
\* leaves the history and the counter of solver i as they were, and after
\* every step the outputs, the history and the counter of each solver are
\* those of the same solver run alone on the same inputs.
C11_StatePerInstance ==
    [][\A i \in Instances :
          /\ (solvers[i].constructed /\ solvers'[i].calls = solvers[i].calls) =>
                 /\ solvers'[i].constructed
                 /\ History(i)' = History(i)
                 /\ solvers'[i].initial_steps = solvers[i].initial_steps
          /\ solvers'[i].constructed =>
                 /\ solvers'[i].outputs = alone'[i].outputs
                 /\ History(i)' = alone'[i].estimated_data
                 /\ solvers'[i].initial_steps = alone'[i].initial_steps]_vars

\* Calls in the order 1, 2, 1, 2 or 2, 1, 1, 2: both solvers ended on a
\* second-order update that read their own first estimate.
C11_InterleavedSecondOrder ==
    /\ \A i \in Instances :
          /\ solvers[i].constructed
          /\ solvers[i].calls = 2
          /\ solvers[i].outputs[2].branch = "second"
          /\ solvers[i].outputs[2].outcome = "ok"
          /\ solvers[i].outputs[2].dnext = Sample(i, 1)
          /\ solvers[i].outputs[2].dcur = Sample(i, 2)
    /\ solvers[1].other_calls = 1
    /\ solvers[2].other_calls = 2

====
